---------------------------- MODULE Spec2Model ----------------------------
(***************************************************************************)
(* A model of backup_clickup_chats.py: the HTTP helper api_get, the four   *)
(* paginated fetches, main's control flow and the export helpers.          *)
(*                                                                         *)
(* The program is single-threaded.  pc is the api_get call site (or file   *)
(* step) main is at; api is the state of the api_get call in progress;     *)
(* every other variable is a local of main or of the function it called.   *)
(* The provider (the remote API) is the environment: each transmission is  *)
(* answered by one of Http200, Http429, Http401, HttpError, TransportError.*)
(***************************************************************************)
EXTENDS Integers, Sequences, FiniteSets, TLC

VARIABLES
    pc,               \* call site / step of main
    status,           \* "running", "exit(0)" (main returned) or "exit(1)" (sys.exit(1))
    args,             \* parsed command line: skip_legacy, no_replies, workspace_id
    api,              \* api_get in progress: [st, retries]
    ret,              \* what the last api_get returned to its caller
    saw401,           \* history: some transmission was answered with HTTP 401
    hist,             \* history of the current api_get call: [on, n429, waits]
    workspace,        \* main: the selected team
    members,          \* main: uid -> display name
    tree,             \* find_all_chat_views: spaces, folders, lists and loop indices
    chat_views,       \* find_all_chat_views / main: discovered chat views
    cv_i,             \* main: index of the chat view being backed up
    start,            \* get_chat_view_comments
    start_id,         \* get_chat_view_comments
    all_comments,     \* get_chat_view_comments
    all_view_data,    \* main
    include_closed,   \* get_all_channels: the pass, "false" or "true"
    cursor,           \* the cursor local of the cursor walk in progress
    all_channels,     \* get_all_channels
    seen_ids,         \* get_all_channels
    received,         \* history: what the pages of the walks under check delivered, in order
    served,           \* provider: pages with a continuation given so far
    channels,         \* main
    idx,              \* main: index of the channel being fetched
    all_messages,     \* get_channel_messages, then main's messages
    msg_i,            \* main: index of the message in the reply loop
    all_replies,      \* get_message_replies
    all_channel_data, \* main
    files,            \* the output directory: sequence of [name, content] in write order
    events,           \* history: caller-level requests and file writes, in order
    fn_in,            \* input of the pure function under check
    fn_out            \* its result

apiVars    == <<api, ret, saw401, hist>>
legacyVars == <<tree, chat_views, cv_i, start, start_id, all_comments, all_view_data>>
walkVars   == <<cursor, served>>
chanVars   == <<include_closed, all_channels, seen_ids, received, channels>>
msgVars    == <<idx, all_messages, msg_i, all_replies, all_channel_data>>
fnVars     == <<fn_in, fn_out>>
\* everything api_get itself leaves alone
callerVars == <<pc, args, workspace, members, legacyVars, walkVars, chanVars, msgVars, files, events, fnVars>>
vars == <<status, apiVars, callerVars>>

(***************************************************************************)
(* Python values.                                                          *)
(***************************************************************************)
\* None where the other values are strings (cursor, start, start_id, names).
None == "None"
\* None as api_get's return value (the other values are JSON objects).
ApiNone == [none |-> TRUE]
\* The JSON object {}.
EmptyObj == [empty |-> TRUE]

\* Python truthiness of an optional string: None and "" are falsy.
Truthy(s) == s # None /\ s # ""
\* Python truthiness of api_get's result: None and {} are falsy.
HasData(d) == d # ApiNone /\ d # EmptyObj
\* dict.get(key, default) on a JSON object.
Get(d, key, default) == IF key \in DOMAIN d THEN d[key] ELSE default

RECURSIVE Cat(_)
\* The concatenation of a sequence of sequences.
Cat(ss) == IF ss = <<>> THEN <<>> ELSE Head(ss) \o Cat(Tail(ss))

RECURSIVE SumSeq(_)
SumSeq(s) == IF s = <<>> THEN 0 ELSE Head(s) + SumSeq(Tail(s))

Range(s) == {s[i] : i \in DOMAIN s}
\* The subsequence of s of the elements satisfying Test, as a list comprehension builds it.
Filter(s, Test(_)) == SelectSeq(s, Test)
\* All sequences over S of length at most n.
SeqUpTo(S, n) == UNION {[1..k -> S] : k \in 0..n}

(***************************************************************************)
(* Configuration.                                                          *)
(***************************************************************************)
MAX_RETRIES == 3
\* get_chat_view_comments: the provider's page size, `if len(comments) < 25`.
COMMENT_PAGE_SIZE == 25

(***************************************************************************)
(* Bounds of the model.                                                    *)
(***************************************************************************)
\* HTTP 429 answers the provider gives within one api_get call while the
\* call's history is recorded (hist.on).
MaxRateLimited == 2
\* Pages with a continuation the provider gives within one run.
MaxPages == 1
\* Chat views the workspace holds.
MaxChatViews == 1

(***************************************************************************)
(* api_get.                                                                *)
(***************************************************************************)
\* api_get(url, params): retries = 0, about to transmit.
ApiCall == [st |-> "sending", retries |-> 0]
ApiIdle == [st |-> "idle", retries |-> 0]
NoHist(on) == [on |-> on, n429 |-> 0, waits |-> <<>>]

RECURSIVE Pow2(_)
Pow2(n) == IF n = 0 THEN 1 ELSE 2 * Pow2(n - 1)
\* wait = 2 ** (retries + 1)
Backoff(retries) == Pow2(retries + 1)

\* The 429 branch: sleep, then `return api_get(url, params)`: the recursive
\* call passes no `retries`, so it starts again from the default 0.
RateLimitedCall(a) == [a EXCEPT !.retries = 0]

\* The except branch while retries < MAX_RETRIES: api_get(url, params, retries + 1).
RetryCall(a) == [a EXCEPT !.retries = a.retries + 1]

\* Whether the except branch retransmits.
MayRetry(a) == a.retries < MAX_RETRIES

\* api_get returns `value` to its caller.
Return(value) ==
    /\ api' = [api EXCEPT !.st = "returned"]
    /\ ret' = value

Sending == status = "running" /\ api.st = "sending"

\* resp.status_code == 200: return resp.json()
Http200(Bodies) ==
    /\ Sending
    /\ \E body \in Bodies : Return(body)
    /\ UNCHANGED <<saw401, hist, status, callerVars>>

\* resp.status_code == 429
Http429 ==
    /\ Sending
    /\ hist.n429 < MaxRateLimited
    /\ api' = RateLimitedCall(api)
    /\ hist' = IF hist.on THEN [hist EXCEPT !.n429 = @ + 1] ELSE hist
    /\ UNCHANGED <<ret, saw401, status, callerVars>>

\* any other status but 200, 429, 401: return None
HttpError ==
    /\ Sending
    /\ Return(ApiNone)
    /\ UNCHANGED <<saw401, hist, status, callerVars>>

\* requests.exceptions.RequestException
TransportError ==
    /\ Sending
    /\ IF MayRetry(api)
         THEN /\ api' = RetryCall(api)
              /\ hist' = IF hist.on
                           THEN [hist EXCEPT !.waits = Append(@, Backoff(api.retries))]
                           ELSE hist
              /\ ret' = ret
         ELSE /\ Return(ApiNone)
              /\ hist' = hist
    /\ UNCHANGED <<saw401, status, callerVars>>


\* A 401 taken for any other non-200 status: logged, and the call returns None.
UnauthorizedAsHttpError(a) == [status |-> "running", api |-> [a EXCEPT !.st = "returned"]]

\* The 401 branch: print the diagnostic and sys.exit(1).  The result is the
\* process status, the state of the call and what the caller gets.
Unauthorized(a) == [status |-> "exit(1)", api |-> [a EXCEPT !.st = "exited"]]

\* resp.status_code == 401
Http401 ==
    /\ Sending
    /\ saw401' = TRUE
    /\ status' = Unauthorized(api).status
    /\ api' = Unauthorized(api).api
    /\ UNCHANGED <<ret, hist, callerVars>>

(***************************************************************************)
(* Events: the caller-level api_get calls and the file writes, in order.   *)
(* A request is logged by the part of the run it belongs to, with the index*)
(* of the channel and of the message concerned (0 when there is none), and *)
(* a request that repeats the last entry (the next page of the same walk,  *)
(* the next request of the legacy scan) adds no entry.                     *)
(***************************************************************************)
\* The part of the run the api_get call site `site` belongs to.
Part(site) ==
    CASE site = "get_teams" -> "workspace"
      [] site = "get_members" -> "members"
      [] site \in {"channels", "messages", "replies"} -> site
      [] OTHER -> "legacy"

Request(site, ch, msg) ==
    [kind |-> "request", what |-> Part(site), ch |-> ch, msg |-> msg, id |-> ""]
\* A request whose URL names the message `id`: get_message_replies.
RequestFor(site, ch, msg, id) == [Request(site, ch, msg) EXCEPT !.id = id]
Write(name) == [kind |-> "write", what |-> name, ch |-> 0, msg |-> 0, id |-> ""]

\* The log with the event e added.
Logged(log, e) == IF log # <<>> /\ log[Len(log)] = e THEN log ELSE Append(log, e)

\* The caller writes the files `writes`, then calls api_get at call site
\* `site`, for the message `id` if the request is for one.
CallFor(writes, site, ch, msg, id) ==
    /\ pc' = site
    /\ api' = ApiCall
    /\ ret' = ApiNone
    /\ hist' = NoHist(hist.on)
    /\ events' = Logged(events \o [i \in DOMAIN writes |-> Write(writes[i].name)],
                        RequestFor(site, ch, msg, id))
    /\ UNCHANGED <<status, saw401>>

CallAfter(writes, site, ch, msg) == CallFor(writes, site, ch, msg, "")

\* The caller calls api_get at call site `site`.
Call(site, ch, msg) == CallAfter(<<>>, site, ch, msg)

\* The caller writes the files `writes`; control is then at a step of main
\* that calls no api_get (a file step).
StepAfter(writes, site) ==
    /\ pc' = site
    /\ api' = ApiIdle
    /\ ret' = ApiNone
    /\ events' = events \o [i \in DOMAIN writes |-> Write(writes[i].name)]
    /\ UNCHANGED <<saw401, hist>>

Step(site) == StepAfter(<<>>, site) /\ status' = status

\* sys.exit(1) outside api_get.
Exit1 ==
    /\ status' = "exit(1)"
    /\ api' = ApiIdle
    /\ ret' = ApiNone
    /\ UNCHANGED <<pc, saw401, hist, events>>

\* api_get has returned to the caller at call site `site`.
Returned(site) == status = "running" /\ pc = site /\ api.st = "returned"

\* `if data and key in data: return data[key]` else `return []`
ListOf(data, key) == IF HasData(data) /\ key \in DOMAIN data THEN data[key] ELSE <<>>

(***************************************************************************)
(* main: token, workspace, members.                                        *)
(***************************************************************************)
\* main up to select_workspace: a missing token is fatal.
Start ==
    /\ status = "running" /\ pc = "start"
    /\ IF args.token = ""
         THEN Exit1
         ELSE Call("get_teams", 0, 0)
    /\ UNCHANGED <<args, workspace, members, legacyVars, walkVars, chanVars, msgVars, files, fnVars>>

\* The teams select_workspace may return for the teams get_teams gave:
\* the team with the requested id, the only team, or the operator's choice.
Selectable(teams, workspace_id) ==
    IF workspace_id # None
      THEN LET hits == {i \in DOMAIN teams : teams[i].id = workspace_id}
           IN  IF hits = {} THEN {}
               ELSE {teams[CHOOSE i \in hits : \A j \in hits : i <= j]}
      ELSE Range(teams)

\* get_teams and select_workspace, then main calls get_workspace_members.
SelectWorkspace ==
    /\ Returned("get_teams")
    /\ LET teams == ListOf(ret, "teams")
           cands == Selectable(teams, args.workspace_id)
       IN  IF cands = {}
             THEN Exit1 /\ workspace' = workspace
             ELSE /\ \E team \in cands : workspace' = team
                  /\ Call("get_members", 0, 0)
    /\ UNCHANGED <<args, members, legacyVars, walkVars, chanVars, msgVars, files, fnVars>>

\* get_workspace_members: str(user id) -> name (username, else initials,
\* else "Unknown") and email.
MemberDirectory(data) ==
    IF HasData(data) /\ "team" \in DOMAIN data
      THEN LET ms == Get(data.team, "members", <<>>)
               \* a later member with the same id overwrites an earlier one
               user(i) == Get(ms[i], "user", EmptyObj)
               uid(i) == Get(user(i), "id", "")
               \* a later member with the same id overwrites an earlier one
               last(u) == CHOOSE i \in DOMAIN ms :
                            uid(i) = u /\ \A j \in DOMAIN ms : uid(j) = u => j <= i
           IN  [u \in {uid(i) : i \in DOMAIN ms} |->
                  [name  |-> Get(user(last(u)), "username",
                                 Get(user(last(u)), "initials", "Unknown")),
                   email |-> Get(user(last(u)), "email", "")]]
      ELSE <<>>

\* main after get_workspace_members: os.makedirs, then Part 1 unless
\* --skip-legacy (find_all_chat_views calls get_spaces), else Part 2.
LoadMembers ==
    /\ Returned("get_members")
    /\ members' = MemberDirectory(ret)
    /\ IF args.skip_legacy
         THEN Call("channels", 0, 0)
         ELSE Call("get_spaces", 0, 0)
    /\ UNCHANGED <<args, workspace, legacyVars, walkVars, chanVars, msgVars, files, fnVars>>

(***************************************************************************)
(* find_all_chat_views.  tree holds its locals: spaces, folders, lists and *)
(* the position of the three for-loops.                                    *)
(***************************************************************************)
NoTree == [spaces |-> <<>>, space_i |-> 0, folders |-> <<>>, folder_i |-> 0,
           lists |-> <<>>, list_i |-> 0]

\* The views of type "chat" among `views`, as find_all_chat_views records them.
ChatViewsIn(views, location) ==
    LET chat == Filter(views, LAMBDA v : Get(v, "type", None) = "chat")
    IN  [i \in DOMAIN chat |-> [view_id   |-> chat[i].id,
                                view_name |-> Get(chat[i], "name", "Unnamed"),
                                location  |-> location]]

SpaceLoc(t)      == "Space: " \o t.spaces[t.space_i].name
FolderLoc(t)     == SpaceLoc(t) \o " > Folder: " \o t.folders[t.folder_i].name
FolderListLoc(t) == FolderLoc(t) \o " > List: " \o t.lists[t.list_i].name
ListLoc(t)       == SpaceLoc(t) \o " > List: " \o t.lists[t.list_i].name

\* Where find_all_chat_views goes when the lists of a folder are done:
\* the next folder, or the folderless lists of the space.
AfterFolder(t) ==
    IF t.folder_i < Len(t.folders)
      THEN [tree |-> [t EXCEPT !.folder_i = @ + 1], site |-> "folder_views"]
      ELSE [tree |-> t, site |-> "folderless_lists"]

\* Where it goes when a space is done: the next space, or it returns.
AfterSpace(t) ==
    IF t.space_i < Len(t.spaces)
      THEN [tree |-> [t EXCEPT !.space_i = @ + 1], site |-> "space_views"]
      ELSE [tree |-> NoTree, site |-> "return"]

\* main after find_all_chat_views returned cvs: the first view's comments,
\* or, without a view, the `if all_view_data:` that ends Part 1.
AfterDiscovery(cvs) ==
    IF cvs # <<>>
      THEN cv_i' = 1 /\ Call("view_comments", 0, 0)
      ELSE cv_i' = cv_i /\ Step("save_views")

\* find_all_chat_views continues at `site` with chat_views = cvs.
Discover(site, cvs) ==
    IF site = "return" THEN AfterDiscovery(cvs)
    ELSE cv_i' = cv_i /\ Call(site, 0, 0)

discoveryFrame == <<args, workspace, members, start, start_id, all_comments, all_view_data,
                    walkVars, chanVars, msgVars, files, fnVars>>

\* get_spaces, then the loop over the spaces begins.
Spaces ==
    /\ Returned("get_spaces")
    /\ LET t == [NoTree EXCEPT !.spaces = ListOf(ret, "spaces"), !.space_i = 1]
       IN  IF t.spaces = <<>>
             THEN tree' = NoTree /\ Discover("return", chat_views)
             ELSE tree' = t /\ Discover("space_views", chat_views)
    /\ UNCHANGED <<chat_views, discoveryFrame>>

\* get_views_for_space, then get_folders.
SpaceViews ==
    /\ Returned("space_views")
    /\ chat_views' = chat_views \o ChatViewsIn(ListOf(ret, "views"), SpaceLoc(tree))
    /\ Call("get_folders", 0, 0)
    /\ UNCHANGED <<tree, cv_i, discoveryFrame>>

\* get_folders, then the loop over the folders, then get_folderless_lists.
Folders ==
    /\ Returned("get_folders")
    /\ LET t == [tree EXCEPT !.folders = ListOf(ret, "folders"), !.folder_i = 1]
       IN  /\ tree' = t
           /\ Call(IF t.folders = <<>> THEN "folderless_lists" ELSE "folder_views", 0, 0)
    /\ UNCHANGED <<chat_views, cv_i, discoveryFrame>>

\* get_views_for_folder, then get_lists_for_folder.
FolderViews ==
    /\ Returned("folder_views")
    /\ chat_views' = chat_views \o ChatViewsIn(ListOf(ret, "views"), FolderLoc(tree))
    /\ Call("folder_lists", 0, 0)
    /\ UNCHANGED <<tree, cv_i, discoveryFrame>>

\* get_lists_for_folder, then the loop over the folder's lists.
FolderLists ==
    /\ Returned("folder_lists")
    /\ LET t == [tree EXCEPT !.lists = ListOf(ret, "lists"), !.list_i = 1]
           n == IF t.lists = <<>> THEN AfterFolder(t)
                ELSE [tree |-> t, site |-> "folder_list_views"]
       IN  tree' = n.tree /\ Call(n.site, 0, 0)
    /\ UNCHANGED <<chat_views, cv_i, discoveryFrame>>

\* get_views_for_list of a list in a folder.
FolderListViews ==
    /\ Returned("folder_list_views")
    /\ chat_views' = chat_views \o ChatViewsIn(ListOf(ret, "views"), FolderListLoc(tree))
    /\ LET n == IF tree.list_i < Len(tree.lists)
                  THEN [tree |-> [tree EXCEPT !.list_i = @ + 1], site |-> "folder_list_views"]
                  ELSE AfterFolder(tree)
       IN  tree' = n.tree /\ Call(n.site, 0, 0)
    /\ UNCHANGED <<cv_i, discoveryFrame>>

\* get_folderless_lists, then the loop over them.
FolderlessLists ==
    /\ Returned("folderless_lists")
    /\ LET t == [tree EXCEPT !.lists = ListOf(ret, "lists"), !.list_i = 1]
           n == IF t.lists = <<>> THEN AfterSpace(t)
                ELSE [tree |-> t, site |-> "list_views"]
       IN  tree' = n.tree /\ Discover(n.site, chat_views)
    /\ UNCHANGED <<chat_views, discoveryFrame>>

\* get_views_for_list of a folderless list.
ListViews ==
    /\ Returned("list_views")
    /\ LET cvs == chat_views \o ChatViewsIn(ListOf(ret, "views"), ListLoc(tree))
           n == IF tree.list_i < Len(tree.lists)
                  THEN [tree |-> [tree EXCEPT !.list_i = @ + 1], site |-> "list_views"]
                  ELSE AfterSpace(tree)
       IN  chat_views' = cvs /\ tree' = n.tree /\ Discover(n.site, cvs)
    /\ UNCHANGED discoveryFrame

(***************************************************************************)
(* format_timestamp.  A timestamp n is held as <<n \div 1000, n % 1000>>,  *)
(* so that millisecond values of this century fit the checker's integers.  *)
(* The formatted string is the one strftime("%Y-%m-%d %H:%M:%S") gives in  *)
(* a UTC process.                                                          *)
(***************************************************************************)
MS_PER_S == 1000
\* the integer n as a timestamp value
Ts(k, u) == <<k, u>>
\* the timestamp value of n seconds given as whole thousands and rest
OfSeconds(s) == Ts(s \div MS_PER_S, s % MS_PER_S)
\* the timestamp value of 1000 * s
OfMillis(s) == Ts(s, 0)

\* The test as int(ts) > 1e13.
AboveTenfold(ts) ==
    LET e9 == 1000 * 1000 * 1000
    IN  ts[1] \div 10 > e9 \/ (ts[1] \div 10 = e9 /\ (ts[1] % 10 > 0 \/ ts[2] > 0))

\* int(ts) > 1e12
AboveMsThreshold(ts) ==
    LET e9 == 1000 * 1000 * 1000
    IN  ts[1] > e9 \/ (ts[1] = e9 /\ ts[2] > 0)

\* str(ts)
TsStr(ts) ==
    IF ts[1] = 0 THEN ToString(ts[2])
    ELSE ToString(ts[1])
         \o (IF ts[2] < 10 THEN "00" ELSE IF ts[2] < 100 THEN "0" ELSE "")
         \o ToString(ts[2])

Pad2(n) == IF n < 10 THEN "0" \o ToString(n) ELSE ToString(n)
Pad4(n) == (IF n < 10 THEN "000" ELSE IF n < 100 THEN "00" ELSE IF n < 1000 THEN "0" ELSE "")
           \o ToString(n)

\* The proleptic Gregorian date of day number `days` since 1970-01-01.
CivilDate(days) ==
    LET z   == days + 719468
        era == z \div 146097
        doe == z - era * 146097
        yoe == (doe - doe \div 1460 + doe \div 36524 - doe \div 146096) \div 365
        doy == doe - (365 * yoe + yoe \div 4 - yoe \div 100)
        mp  == (5 * doy + 2) \div 153
        d   == doy - (153 * mp + 2) \div 5 + 1
        m   == IF mp < 10 THEN mp + 3 ELSE mp - 9
        y   == yoe + era * 400 + (IF m <= 2 THEN 1 ELSE 0)
    IN  [year |-> y, month |-> m, day |-> d]

\* datetime.fromtimestamp(ts_val) raises ValueError beyond year 9999,
\* that is beyond 253402300799 seconds.
YearOutOfRange(ts) ==
    ts[1] > 253402300 \/ (ts[1] = 253402300 /\ ts[2] > 799)

\* datetime.fromtimestamp(n).strftime("%Y-%m-%d %H:%M:%S") for n seconds
\* given as a timestamp value within range.
StrfTime(ts) ==
    LET n200 == 5 * ts[1] + (ts[2] \div 200)        \* n \div 200
        days == n200 \div 432                       \* n \div 86400
        secs == (n200 % 432) * 200 + (ts[2] % 200)   \* n % 86400
        date == CivilDate(days)
    IN  Pad4(date.year) \o "-" \o Pad2(date.month) \o "-" \o Pad2(date.day) \o " "
        \o Pad2(secs \div 3600) \o ":" \o Pad2((secs % 3600) \div 60) \o ":" \o Pad2(secs % 60)

\* ts_val = int(ts) / 1000 if int(ts) > 1e12 else int(ts): the whole seconds
\* of ts_val, as a timestamp value.
TsVal(ts) == IF AboveMsThreshold(ts) THEN OfSeconds(ts[1]) ELSE ts

\* None, or an absent field, where the other values are timestamps.
NoTs == <<>>

\* format_timestamp(ts) for ts None or an integer >= 0.
FormatTimestamp(ts) ==
    IF ts = NoTs \/ ts = Ts(0, 0) THEN ""
    ELSE IF YearOutOfRange(TsVal(ts)) THEN TsStr(ts)
    ELSE StrfTime(TsVal(ts))

(***************************************************************************)
(* resolve_channel_name.                                                   *)
(***************************************************************************)
RECURSIVE Join(_, _)
\* sep.join(names)
Join(names, sep) ==
    IF names = <<>> THEN ""
    ELSE IF Len(names) = 1 THEN names[1]
    ELSE names[1] \o sep \o Join(Tail(names), sep)

\* str(m.get("user_id", m.get("id", ""))); ids are held as their str().
LinkUid(m) == Get(m, "user_id", Get(m, "id", ""))

\* names: the display names of the member links found in the directory.
ResolvedNames(channel, dir) ==
    LET links == Get(channel, "member_links", Get(channel, "members", <<>>))
        known == Filter(links, LAMBDA m : LinkUid(m) \in DOMAIN dir)
    IN  [i \in DOMAIN known |-> dir[LinkUid(known[i])].name]

\* The provider name first, whatever the type; the members only without one.
ResolveNameFirst(channel, dir) ==
    LET ch_name == Get(channel, "name", "")
        names   == ResolvedNames(channel, dir)
    IN  IF Truthy(ch_name) THEN ch_name
        ELSE IF names # <<>> THEN "DM: " \o Join(names, " & ")
        ELSE "channel-" \o Get(channel, "id", "unknown")

ResolveChannelName(channel, dir) ==
    LET ch_name == Get(channel, "name", "")
        ch_type == Get(channel, "type", "")
        names   == ResolvedNames(channel, dir)
    IN  IF Truthy(ch_name) /\ ch_type = "CHANNEL" THEN ch_name
        ELSE IF ch_type \in {"DM", "GROUP_DM"} /\ names # <<>>
          THEN "DM: " \o Join(names, " & ")
        ELSE IF Truthy(ch_name) THEN ch_name
        ELSE "channel-" \o Get(channel, "id", "unknown")

(***************************************************************************)
(* The reply-count test of main's reply loop.  A reply_count is            *)
(* [t |-> "int", v |-> n] or [t |-> "str", v |-> <<characters>>].          *)
(***************************************************************************)
\* A reply_count as the JSON body gives it: a number, or a string (held as
\* the sequence of its characters).
IntVal(n) == [t |-> "int", n |-> n]
StrVal(chars) == [t |-> "str", s |-> chars]
Digits == {"0", "1", "2", "3", "4", "5", "6", "7", "8", "9"}
DigitOf(c) == CHOOSE d \in 0..9 : ToString(d) = c

\* str.isdigit(): not empty and digits only.
IsDigit(chars) == chars # <<>> /\ \A i \in DOMAIN chars : chars[i] \in Digits

RECURSIVE ParseInt(_)
\* int(s) of a string of digits.
ParseInt(chars) ==
    IF chars = <<>> THEN 0
    ELSE 10 * ParseInt(SubSeq(chars, 1, Len(chars) - 1)) + DigitOf(chars[Len(chars)])

\* reply_count as main coerces it.
ReplyCount(msg) ==
    LET reply_count == Get(msg, "reply_count", IntVal(0))
    IN  IF reply_count.t = "str"
          THEN (IF IsDigit(reply_count.s) THEN ParseInt(reply_count.s) ELSE 0)
          ELSE reply_count.n

\* The test as `reply_count >= 0`.
WantsRepliesFromZero(msg) == ReplyCount(msg) >= 0

\* `if reply_count > 0`
WantsReplies(msg) == ReplyCount(msg) > 0

\* The first message at or after position `from` the reply loop fetches
\* replies for; 0 when there is none (or replies are not fetched at all).
NextFetch(msgs, from, fetch_replies) ==
    LET due == {i \in from..Len(msgs) : fetch_replies /\ WantsReplies(msgs[i])}
    IN  IF due = {} THEN 0 ELSE CHOOSE i \in due : \A j \in due : i <= j

\* fetch_replies = args.include_replies and not args.no_replies;
\* --include-replies is store_true with default True, so it is always True.
FetchReplies(a) == TRUE /\ ~a.no_replies

(***************************************************************************)
(* Export helpers.  A CSV file is held as its data rows (the header row is *)
(* left out), each row as the columns Channel Name, Channel Type,          *)
(* Message ID, Date, Is Reply and Parent Message ID.                       *)
(***************************************************************************)
\* d with d[key] = val
SetKey(d, key, val) ==
    [k \in DOMAIN d \cup {key} |-> IF k = key THEN val ELSE d[k]]

\* _write_message_row
MessageRow(ch_name, ch_type, msg, is_reply, parent_id) ==
    [channel_name |-> ch_name,
     channel_type |-> ch_type,
     message_id   |-> Get(msg, "id", ""),
     date         |-> FormatTimestamp(Get(msg, "date_created", Get(msg, "date", NoTs))),
     is_reply     |-> IF is_reply THEN "Yes" ELSE "No",
     parent_id    |-> parent_id]

\* The rows with each reply's own identifier as its parent identifier.
RowsWithOwnParent(ch_info, msg) ==
    LET ch_name == Get(ch_info, "channel_name", "")
        ch_type == Get(ch_info, "channel_type", "")
        replies == Get(msg, "replies", <<>>)
    IN  <<MessageRow(ch_name, ch_type, msg, FALSE, "")>>
        \o [i \in DOMAIN replies |->
              MessageRow(ch_name, ch_type, replies[i], TRUE, Get(replies[i], "id", ""))]

\* The row of msg followed by the rows of its replies.
RowsOfMessage(ch_info, msg) ==
    LET ch_name == Get(ch_info, "channel_name", "")
        ch_type == Get(ch_info, "channel_type", "")
        replies == Get(msg, "replies", <<>>)
    IN  <<MessageRow(ch_name, ch_type, msg, FALSE, "")>>
        \o [i \in DOMAIN replies |->
              MessageRow(ch_name, ch_type, replies[i], TRUE, Get(msg, "id", ""))]

\* save_channels_csv: the rows written for all_channel_data.
ChannelsCsv(data) ==
    Cat([c \in DOMAIN data |->
           LET msgs == Get(data[c], "messages", <<>>)
           IN  Cat([m \in DOMAIN msgs |-> RowsOfMessage(data[c], msgs[m])])])

\* save_chat_views_csv: the rows written for all_view_data.
ChatViewsCsv(data) ==
    Cat([v \in DOMAIN data |->
           LET comments == Get(data[v], "comments", <<>>)
           IN  [i \in DOMAIN comments |->
                  [view_name  |-> Get(data[v], "view_name", ""),
                   location   |-> Get(data[v], "location", ""),
                   comment_id |-> Get(comments[i], "id", ""),
                   date       |-> FormatTimestamp(Get(comments[i], "date", NoTs))]]])

File(name, content) == [name |-> name, content |-> content]

\* save_json then the CSV writer for one partition, when it is not empty.
SavePair(data, json_name, csv_name, csv) ==
    IF data = <<>> THEN <<>>
    ELSE <<File(json_name, data), File(csv_name, csv)>>

(***************************************************************************)
(* get_chat_view_comments and main's loop over the chat views.             *)
(***************************************************************************)
\* The iteration with the comments already fetched left out of the result.
CommentsPageDistinct(data, acc) ==
    LET cs    == ListOf(data, "comments")
        fresh == SelectSeq(cs, LAMBDA c : \A i \in DOMAIN acc : acc[i] # c)
        last  == IF cs = <<>> THEN EmptyObj ELSE cs[Len(cs)]
        date  == Get(last, "date", NoTs)
        id    == Get(last, "id", None)
        more  == Len(cs) >= COMMENT_PAGE_SIZE /\ date # NoTs /\ id # None
    IN  [done |-> ~more, all |-> acc \o fresh,
         start |-> IF more THEN date ELSE NoTs, start_id |-> IF more THEN id ELSE None]

\* One iteration of the while loop on the page `data`, with `acc` fetched so far.
CommentsPage(data, acc) ==
    IF ~HasData(data) \/ "comments" \notin DOMAIN data
      THEN [done |-> TRUE, all |-> acc, start |-> NoTs, start_id |-> None]
    ELSE IF Len(data.comments) = 0
      THEN [done |-> TRUE, all |-> acc, start |-> NoTs, start_id |-> None]
    ELSE LET comments == data.comments
             oldest   == comments[Len(comments)]
             date     == Get(oldest, "date", NoTs)
             id       == Get(oldest, "id", None)
         IN  IF Len(comments) < COMMENT_PAGE_SIZE
               THEN [done |-> TRUE, all |-> acc \o comments, start |-> NoTs, start_id |-> None]
               ELSE [done |-> date = NoTs \/ id = None, all |-> acc \o comments,
                     start |-> date, start_id |-> id]

\* The record main appends to all_view_data.
ViewRecord(cv, comments) ==
    [view_id |-> cv.view_id, view_name |-> cv.view_name, location |-> cv.location,
     comment_count |-> Len(comments), comments |-> comments]

ViewComments ==
    /\ Returned("view_comments")
    /\ received' = IF hist.on THEN received \o ListOf(ret, "comments") ELSE received
    /\ LET r == CommentsPage(ret, all_comments)
       IN  IF ~r.done
             THEN /\ all_comments' = r.all
                  /\ start' = r.start
                  /\ start_id' = r.start_id
                  /\ served' = served + 1
                  /\ Call("view_comments", 0, 0)
                  /\ UNCHANGED <<cv_i, all_view_data>>
             ELSE \* get_chat_view_comments returns r.all to main
                  /\ all_view_data' = Append(all_view_data, ViewRecord(chat_views[cv_i], r.all))
                  /\ all_comments' = <<>>
                  /\ start' = NoTs
                  /\ start_id' = None
                  /\ served' = served
                  /\ IF cv_i < Len(chat_views)
                       THEN cv_i' = cv_i + 1 /\ Call("view_comments", 0, 0)
                       ELSE cv_i' = cv_i /\ Step("save_views")
    /\ UNCHANGED <<args, workspace, members, tree, chat_views, cursor, include_closed,
                   all_channels, seen_ids, channels, msgVars, files, fnVars>>

\* The files Part 1 writes: `if all_view_data:` save_json, save_chat_views_csv.
ChatViewFiles(data) ==
    SavePair(data, "chat_views.json", "chat_views.csv", ChatViewsCsv(data))

\* The end of Part 1, then get_all_channels' first request.
SaveChatViews ==
    /\ status = "running" /\ pc = "save_views"
    /\ files' = files \o ChatViewFiles(all_view_data)
    /\ CallAfter(ChatViewFiles(all_view_data), "channels", 0, 0)
    /\ UNCHANGED <<args, workspace, members, legacyVars, walkVars, chanVars, msgVars, fnVars>>

(***************************************************************************)
(* get_all_channels.                                                       *)
(***************************************************************************)
\* The merge without the test against seen_ids: every channel is appended.
MergeUnseen(page, acc, seen) ==
    [all |-> acc \o page, seen |-> seen \cup {page[i].id : i \in DOMAIN page}]

RECURSIVE MergeChannels(_, _, _)
\* for ch in channels: if ch["id"] not in seen_ids: add and append
MergeChannels(page, acc, seen) ==
    IF page = <<>> THEN [all |-> acc, seen |-> seen]
    ELSE LET ch == Head(page)
         IN  IF ch.id \notin seen
               THEN MergeChannels(Tail(page), Append(acc, ch), seen \cup {ch.id})
               ELSE MergeChannels(Tail(page), acc, seen)

\* One iteration of the while loop on the page `data`.
ChannelsPage(data, acc, seen) ==
    IF ~HasData(data) \/ "data" \notin DOMAIN data
      THEN [end |-> TRUE, all |-> acc, seen |-> seen, next |-> None, ids |-> <<>>]
      ELSE LET m == MergeChannels(data.data, acc, seen)
               next_cursor == Get(data, "next_cursor", None)
           IN  [end |-> ~Truthy(next_cursor), all |-> m.all, seen |-> m.seen,
                next |-> next_cursor, ids |-> [i \in DOMAIN data.data |-> data.data[i].id]]

\* The passes of `for include_closed in ["false", "true"]`.
LastPass(p) == p = "true"

Channels ==
    /\ Returned("channels")
    /\ LET r == ChannelsPage(ret, all_channels, seen_ids)
       IN  /\ all_channels' = r.all
           /\ seen_ids' = r.seen
           /\ received' = IF hist.on THEN received \o r.ids ELSE received
           /\ IF ~r.end
                THEN /\ cursor' = r.next
                     /\ served' = served + 1
                     /\ Call("channels", 0, 0)
                     /\ UNCHANGED <<include_closed, channels, idx>>
              ELSE IF ~LastPass(include_closed)
                THEN /\ include_closed' = "true"
                     /\ cursor' = None
                     /\ served' = served
                     /\ Call("channels", 0, 0)
                     /\ UNCHANGED <<channels, idx>>
              ELSE \* get_all_channels returns r.all to main
                     /\ channels' = r.all
                     /\ cursor' = None
                     /\ served' = served
                     /\ include_closed' = include_closed
                     /\ IF r.all # <<>>
                          THEN idx' = 1 /\ Call("messages", 1, 0)
                          ELSE idx' = idx /\ Step("save_all")
    /\ UNCHANGED <<args, workspace, members, legacyVars, all_messages, msg_i, all_replies,
                   all_channel_data, files, fnVars>>

(***************************************************************************)
(* get_channel_messages, get_message_replies and main's loop over the      *)
(* channels.                                                               *)
(***************************************************************************)
\* The iteration with the items fetched so far given up when the request fails.
ItemsPageOrNothing(data, key, acc) ==
    IF ~HasData(data) THEN [done |-> TRUE, all |-> <<>>, next |-> None]
    ELSE LET items == Get(data, "data", Get(data, key, <<>>))
             next_cursor == Get(data, "next_cursor", None)
         IN  IF items = <<>> THEN [done |-> TRUE, all |-> acc, next |-> None]
             ELSE [done |-> ~Truthy(next_cursor), all |-> acc \o items, next |-> next_cursor]

\* One iteration of the while loop of get_channel_messages (key "messages")
\* or get_message_replies (key "replies") on the page `data`.
ItemsPage(data, key, acc) ==
    IF ~HasData(data) THEN [done |-> TRUE, all |-> acc, next |-> None]
    ELSE LET items == Get(data, "data", Get(data, key, <<>>))
             next_cursor == Get(data, "next_cursor", None)
         IN  IF items = <<>> THEN [done |-> TRUE, all |-> acc, next |-> None]
             ELSE [done |-> ~Truthy(next_cursor), all |-> acc \o items, next |-> next_cursor]

\* The record main appends to all_channel_data.
ChannelRecord(ch, dir, messages) ==
    [channel_id    |-> Get(ch, "id", ""),
     channel_name  |-> ResolveChannelName(ch, dir),
     channel_type  |-> Get(ch, "type", "unknown"),
     channel_info  |-> ch,
     message_count |-> Len(messages),
     messages      |-> messages]

\* The conversation files written inside the loop, after each channel.
ThenSavingEach(site, more) ==
    CASE site = "channel"  -> "save_all"
      [] site = "save_all" -> IF more THEN "messages" ELSE "save_summary"

\* Part 2 of main after `site`: the body of `for idx, ch in enumerate(channels, 1)`
\* ("channel") is followed by the next channel while there are `more`, then by
\* the conversation files ("save_all"), then by the summary.
Then(site, more) ==
    CASE site = "channel"  -> IF more THEN "messages" ELSE "save_all"
      [] site = "save_all" -> "save_summary"

\* main goes on at `site` of Part 2 after writing the files `writes`.
Goto(site, writes) ==
    IF site = "messages"
      THEN idx' = idx + 1 /\ CallAfter(writes, "messages", idx + 1, 0)
      ELSE idx' = idx /\ StepAfter(writes, site) /\ status' = status

\* main is done with the replies of channel idx, whose messages are `messages`:
\* the record is appended and the next channel's messages are requested.
FinishChannel(messages) ==
    /\ all_channel_data' = Append(all_channel_data,
                                  ChannelRecord(channels[idx], members, messages))
    /\ all_messages' = <<>>
    /\ msg_i' = 0
    /\ cursor' = None
    /\ served' = served
    /\ Goto(Then("channel", idx < Len(channels)), <<>>)

\* main's reply loop goes on from message `from` of `messages`.
ReplyLoop(messages, from) ==
    LET n == NextFetch(messages, from, FetchReplies(args))
    IN  IF n > 0
          THEN /\ all_messages' = messages
               /\ msg_i' = n
               /\ cursor' = None
               /\ served' = served
               /\ CallFor(<<>>, "replies", idx, n, Get(messages[n], "id", ""))
               /\ UNCHANGED <<idx, all_channel_data>>
          ELSE FinishChannel(messages)

Messages ==
    /\ Returned("messages")
    /\ LET r == ItemsPage(ret, "messages", all_messages)
       IN  IF ~r.done
             THEN /\ all_messages' = r.all
                  /\ cursor' = r.next
                  /\ served' = served + 1
                  /\ Call("messages", idx, 0)
                  /\ UNCHANGED <<idx, msg_i, all_channel_data>>
             ELSE ReplyLoop(r.all, 1)
    /\ UNCHANGED <<args, workspace, members, legacyVars, chanVars, all_replies, files, fnVars>>

Replies ==
    /\ Returned("replies")
    /\ LET r == ItemsPage(ret, "replies", all_replies)
       IN  IF ~r.done
             THEN /\ all_replies' = r.all
                  /\ cursor' = r.next
                  /\ served' = served + 1
                  /\ CallFor(<<>>, "replies", idx, msg_i, Get(all_messages[msg_i], "id", ""))
                  /\ UNCHANGED <<idx, all_messages, msg_i, all_channel_data>>
             ELSE \* msg["replies"] = replies
                  /\ all_replies' = <<>>
                  /\ ReplyLoop([all_messages EXCEPT ![msg_i] = SetKey(@, "replies", r.all)],
                               msg_i + 1)
    /\ UNCHANGED <<args, workspace, members, legacyVars, chanVars, files, fnVars>>

(***************************************************************************)
(* main: the conversation files and the summary.                           *)
(***************************************************************************)
\* The records of the type together with those of no recognized type.
OfTypeOrOther(data, type) ==
    Filter(data, LAMBDA c : c.channel_type = type
                            \/ c.channel_type \notin {"CHANNEL", "DM", "GROUP_DM"})

\* [c for c in all_channel_data if c["channel_type"] == type]
OfType(data, type) == Filter(data, LAMBDA c : c.channel_type = type)

\* The summary written ahead of the conversation files.
SummaryThenConversations(data) ==
    <<File("backup_summary.json", data)>>
    \o SavePair(data, "all_conversations.json", "all_conversations.csv", ChannelsCsv(data))

\* The files written under `if all_channel_data:`, in order.
ConversationFiles(data) ==
    IF data = <<>> THEN <<>>
    ELSE SavePair(data, "all_conversations.json", "all_conversations.csv", ChannelsCsv(data))
      \o SavePair(OfType(data, "CHANNEL"), "channels.json", "channels.csv",
                  ChannelsCsv(OfType(data, "CHANNEL")))
      \o SavePair(OfType(data, "DM"), "direct_messages.json", "direct_messages.csv",
                  ChannelsCsv(OfType(data, "DM")))
      \o SavePair(OfType(data, "GROUP_DM"), "group_dms.json", "group_dms.csv",
                  ChannelsCsv(OfType(data, "GROUP_DM")))

SaveConversations ==
    /\ status = "running" /\ pc = "save_all"
    /\ files' = files \o ConversationFiles(all_channel_data)
    /\ Goto(Then("save_all", idx < Len(channels)), ConversationFiles(all_channel_data))
    /\ UNCHANGED <<args, workspace, members, legacyVars, walkVars, chanVars,
                   all_messages, msg_i, all_replies, all_channel_data, fnVars>>

CountType(chs, type) == Len(Filter(chs, LAMBDA c : Get(c, "type", None) = type))
RepliesOf(msg) == Len(Get(msg, "replies", <<>>))

\* The summary main saves; the totals are the sums main keeps while fetching.
Summary ==
    [workspace_id             |-> workspace.id,
     workspace_name           |-> workspace.name,
     chat_views_count         |-> Len(chat_views),
     chat_view_comments_count |-> SumSeq([v \in DOMAIN all_view_data |->
                                            Len(all_view_data[v].comments)]),
     channels_count           |-> CountType(channels, "CHANNEL"),
     dms_count                |-> CountType(channels, "DM"),
     group_dms_count          |-> CountType(channels, "GROUP_DM"),
     total_messages           |-> SumSeq([c \in DOMAIN all_channel_data |->
                                            Len(all_channel_data[c].messages)]),
     total_thread_replies     |-> SumSeq([c \in DOMAIN all_channel_data |->
                                    SumSeq([m \in DOMAIN all_channel_data[c].messages |->
                                              RepliesOf(all_channel_data[c].messages[m])])])]

\* The file main ends with.
SummaryFiles == <<File("backup_summary.json", Summary)>>

\* save_json(summary, ...), and main returns.
SaveSummary ==
    /\ status = "running" /\ pc = "save_summary"
    /\ files' = files \o SummaryFiles
    /\ StepAfter(SummaryFiles, "done")
    /\ status' = "exit(0)"
    /\ UNCHANGED <<args, workspace, members, legacyVars, walkVars, chanVars, msgVars, fnVars>>

(***************************************************************************)
(* The provider of a run: what a request at each call site may be answered *)
(* with under HTTP 200.  A walk is given at most MaxPages pages with a     *)
(* continuation, the workspace holds at most MaxChatViews chat views.      *)
(***************************************************************************)
Cursor(n) == "cur" \o ToString(n)
\* A page of `items`, with and (while the walk may go on) without a next cursor.
Paged(items, more) ==
    {[data |-> items]}
    \cup (IF more /\ served < MaxPages
            THEN {[data |-> items, next_cursor |-> Cursor(served + 1)]} ELSE {})

Team(i) == [id |-> "t" \o ToString(i), name |-> "Workspace" \o ToString(i)]
Member(uid, username) == [user |-> [id |-> uid, username |-> username, email |-> ""]]
Named(kind, i) == [id |-> kind \o ToString(i), name |-> kind \o ToString(i)]
ListView == [id |-> "board", type |-> "list", name |-> "Board"]
ChatView(i) == [id |-> "view" \o ToString(i), type |-> "chat", name |-> "Chat" \o ToString(i)]

Comment(i) == [id |-> "cm" \o ToString(i), date |-> Ts(1700000000 - i, 0)]
\* The p-th full page of comments, and a last page of one comment.
FullPage(p) == [i \in 1..COMMENT_PAGE_SIZE |-> Comment(COMMENT_PAGE_SIZE * p + i)]
ShortPage(p) == <<Comment(COMMENT_PAGE_SIZE * p + 1)>>

General == [id |-> "c1", type |-> "CHANNEL", name |-> "general"]
Direct  == [id |-> "c2", type |-> "DM",
            member_links |-> <<[user_id |-> "u1"], [user_id |-> "u2"]>>]

Msg(id, reply_count) == [id |-> id, reply_count |-> reply_count, date |-> Ts(1700000000, 0)]
Plain(id) == [id |-> id]

RunBodies ==
    CASE pc = "get_teams"   -> {[teams |-> <<>>], [teams |-> <<Team(1)>>]}
      [] pc = "get_members" -> {[team |-> [members |-> <<Member("u1", "Alice"),
                                                            Member("u2", "Bob")>>]]}
      [] pc = "get_spaces"  -> {[spaces |-> <<Named("space", 1)>>]}
      [] pc = "get_folders" -> {[folders |-> <<Named("folder", 1)>>]}
      [] pc \in {"folder_lists", "folderless_lists"} -> {[lists |-> <<Named("list", 1)>>]}
      [] pc \in {"space_views", "folder_views", "folder_list_views", "list_views"} ->
            {[views |-> <<ListView>>]}
            \cup (IF Len(chat_views) < MaxChatViews
                    THEN {[views |-> <<ListView, ChatView(Len(chat_views) + 1)>>]} ELSE {})
      [] pc = "view_comments" ->
            {[comments |-> ShortPage(served)]}
            \cup (IF served < MaxPages THEN {[comments |-> FullPage(served)]} ELSE {})
      [] pc = "channels" ->
            IF include_closed = "false" THEN Paged(<<General>>, FALSE)
            ELSE Paged(<<Direct, General>>, FALSE) \cup Paged(<<>>, TRUE)
      [] pc = "messages" ->
            {[data |-> <<Msg("m1", StrVal(<<"3">>)), Msg("m2", StrVal(<<"a", "b", "c">>)),
                         Msg("m3", IntVal(0))>>]}
            \cup (Paged(<<Msg("m4", IntVal(3))>>, TRUE) \ {[data |-> <<Msg("m4", IntVal(3))>>]})
      [] pc = "replies" -> Paged(<<Plain("r1")>>, FALSE)
      [] OTHER -> {}

(***************************************************************************)
(* A run of main.                                                          *)
(***************************************************************************)
Args(token, workspace_id, skip_legacy, no_replies) ==
    [token |-> token, workspace_id |-> workspace_id,
     skip_legacy |-> skip_legacy, no_replies |-> no_replies]

\* The state main starts from, for the command line a.
Fresh(a, on) ==
    /\ pc = "start" /\ status = "running" /\ args = a
    /\ api = ApiIdle /\ ret = ApiNone /\ saw401 = FALSE /\ hist = NoHist(on)
    /\ workspace = [id |-> None, name |-> None] /\ members = <<>>
    /\ tree = NoTree /\ chat_views = <<>> /\ cv_i = 0
    /\ start = NoTs /\ start_id = None /\ all_comments = <<>> /\ all_view_data = <<>>
    /\ include_closed = "false" /\ cursor = None /\ served = 0
    /\ all_channels = <<>> /\ seen_ids = {} /\ received = <<>> /\ channels = <<>>
    /\ idx = 0 /\ all_messages = <<>> /\ msg_i = 0 /\ all_replies = <<>>
    /\ all_channel_data = <<>> /\ files = <<>> /\ events = <<>>
    /\ fn_in = <<>> /\ fn_out = <<>>

Init ==
    \E a \in {Args("", None, FALSE, FALSE)}
             \cup {Args("token", w, s, n) : w \in {None, "t2"}, s \in BOOLEAN, n \in BOOLEAN} :
        Fresh(a, FALSE)

Main ==
    \/ Start \/ SelectWorkspace \/ LoadMembers
    \/ Spaces \/ SpaceViews \/ Folders \/ FolderViews \/ FolderLists \/ FolderListViews
    \/ FolderlessLists \/ ListViews \/ ViewComments \/ SaveChatViews
    \/ Channels \/ Messages \/ Replies \/ SaveConversations \/ SaveSummary

Next ==
    \/ Main
    \/ Http200(RunBodies) \/ Http429 \/ Http401 \/ HttpError \/ TransportError

Spec == Init /\ [][Next]_vars

(***************************************************************************)
(* One api_get call on its own: the first call of a run, with its history  *)
(* recorded, answered in every possible way.                               *)
(***************************************************************************)
InitApi ==
    /\ pc = "get_teams" /\ status = "running" /\ args = Args("token", None, FALSE, FALSE)
    /\ api = ApiCall /\ ret = ApiNone /\ saw401 = FALSE /\ hist = NoHist(TRUE)
    /\ workspace = [id |-> None, name |-> None] /\ members = <<>>
    /\ tree = NoTree /\ chat_views = <<>> /\ cv_i = 0
    /\ start = NoTs /\ start_id = None /\ all_comments = <<>> /\ all_view_data = <<>>
    /\ include_closed = "false" /\ cursor = None /\ served = 0
    /\ all_channels = <<>> /\ seen_ids = {} /\ received = <<>> /\ channels = <<>>
    /\ idx = 0 /\ all_messages = <<>> /\ msg_i = 0 /\ all_replies = <<>>
    /\ all_channel_data = <<>> /\ files = <<>> /\ events = <<Request("get_teams", 0, 0)>>
    /\ fn_in = <<>> /\ fn_out = <<>>

NextApi == Http200(RunBodies) \/ Http429 \/ Http401 \/ HttpError \/ TransportError

SpecApi == InitApi /\ [][NextApi]_vars

\* C4: within one caller-level api_get call the request is retransmitted
\* after a transport failure at most MAX_RETRIES times, with waits of 2, 4
\* and 8 seconds, whatever HTTP 429 answers come in between.
C4_RetryCeiling ==
    /\ Len(hist.waits) <= MAX_RETRIES
    /\ \A i \in DOMAIN hist.waits : hist.waits[i] = Pow2(i)

\* C3: a transmission answered with HTTP 401 exits the process with status 1
\* at once, and after it no request is sent and no file is written.
C3_FatalOn401 ==
    [][/\ saw401' => status' = "exit(1)" /\ api'.st # "sending"
       /\ saw401 => files' = files /\ events' = events /\ api' = api /\ pc' = pc]_vars

\* A 401 at retry depth 2 in a reply walk, after Part 1 wrote its files.
C3_Witness ==
    /\ saw401 /\ status = "exit(1)"
    /\ pc = "replies" /\ api.retries = 2
    /\ files # <<>>
    /\ \A i \in DOMAIN files : files[i].name # "backup_summary.json"

(***************************************************************************)
(* A run against a provider that answers every request with HTTP 200.      *)
(***************************************************************************)
NextOk == Main \/ Http200(RunBodies)

SpecOk == Init /\ [][NextOk]_vars

\* The four paginated fetches, by the call site of their request.
WalkSites == {"view_comments", "channels", "messages", "replies"}

\* The items of the page `data` of the walk at `site`.
PageItems(data, site) ==
    CASE site = "view_comments" -> Get(data, "comments", <<>>)
      [] site = "channels"      -> Get(data, "data", <<>>)
      [] site = "messages"      -> Get(data, "data", Get(data, "messages", <<>>))
      [] site = "replies"       -> Get(data, "data", Get(data, "replies", <<>>))

\* Whether the page carries what the next request of the walk is built from:
\* a next cursor, or for the comments the date and id of its oldest comment.
HasToken(data, site) ==
    IF site = "view_comments"
      THEN LET cs == PageItems(data, site)
           IN  /\ cs # <<>>
               /\ Get(cs[Len(cs)], "date", NoTs) # NoTs
               /\ Get(cs[Len(cs)], "id", None) # None
      ELSE Truthy(Get(data, "next_cursor", None))

\* A walk has just received an HTTP 200 page that is empty or has no token.
TerminalPage ==
    /\ status = "running" /\ api.st = "returned" /\ pc \in WalkSites
    /\ HasData(ret)
    /\ PageItems(ret, pc) = <<>> \/ ~HasToken(ret, pc)

\* C2: once the provider has returned an empty page or a page without a
\* continuation token, the walk sends no further request for a next page, so
\* that it ends within as many requests as the provider takes to return one.
C2_WalkEndsOnTerminalPage ==
    [][TerminalPage =>
         ~(pc' = pc /\ api'.st = "sending" /\ (cursor' # None \/ start_id' # None))]_vars

\* The same of the three walks other than get_all_channels.
OtherWalksEndOnTerminalPage ==
    [][TerminalPage /\ pc # "channels" =>
         ~(pc' = pc /\ api'.st = "sending" /\ (cursor' # None \/ start_id' # None))]_vars

(***************************************************************************)
(* get_all_channels on its own, in a run with --skip-legacy: its two       *)
(* passes against a provider whose pages repeat channels at will.  The     *)
(* identifiers of the pages received are recorded in `received`.           *)
(***************************************************************************)
\* Channels a page holds at most, and channels the provider returns in all.
MaxPageLen == 3
MaxReceived == 5

Chan(i) == [id |-> "c" \o ToString(i), type |-> "CHANNEL", name |-> "chan" \o ToString(i)]

ChannelBodies ==
    IF pc # "channels" THEN {}
    ELSE UNION {Paged(page, TRUE) :
                  page \in {q \in SeqUpTo({Chan(1), Chan(2), Chan(3)}, MaxPageLen) :
                              Len(received) + Len(q) <= MaxReceived}}

InitChannels ==
    /\ pc = "channels" /\ status = "running" /\ args = Args("token", None, TRUE, FALSE)
    /\ api = ApiCall /\ ret = ApiNone /\ saw401 = FALSE /\ hist = NoHist(TRUE)
    /\ workspace = Team(1)
    /\ members = MemberDirectory([team |-> [members |-> <<Member("u1", "Alice")>>]])
    /\ tree = NoTree /\ chat_views = <<>> /\ cv_i = 0
    /\ start = NoTs /\ start_id = None /\ all_comments = <<>> /\ all_view_data = <<>>
    /\ include_closed = "false" /\ cursor = None /\ served = 0
    /\ all_channels = <<>> /\ seen_ids = {} /\ received = <<>> /\ channels = <<>>
    /\ idx = 0 /\ all_messages = <<>> /\ msg_i = 0 /\ all_replies = <<>>
    /\ all_channel_data = <<>> /\ files = <<>>
    /\ events = <<Request("get_teams", 0, 0), Request("get_members", 0, 0),
                  Request("channels", 0, 0)>>
    /\ fn_in = <<>> /\ fn_out = <<>>

NextChannels == Channels \/ Http200(ChannelBodies) \/ (pc = "channels" /\ HttpError)

SpecChannels == InitChannels /\ [][NextChannels]_vars

\* C1: the channels get_all_channels has merged, and the list it returns, hold
\* every identifier received on some page exactly once, in the order of the
\* identifiers' first occurrence over the requests (false pass, then true pass).
C1_FirstSeenOnce ==
    LET ids == [i \in DOMAIN all_channels |-> all_channels[i].id]
        first(x) == CHOOSE i \in DOMAIN received :
                       received[i] = x /\ \A j \in 1..(i - 1) : received[j] # x
    IN  /\ Range(ids) = Range(received)
        /\ \A i, j \in DOMAIN ids : i < j => ids[i] # ids[j] /\ first(ids[i]) < first(ids[j])
        /\ pc # "channels" => channels = all_channels

\* get_all_channels has returned three channels out of five received, the
\* true pass repeating channels of the false pass.
C1_Witness ==
    /\ pc = "messages" /\ include_closed = "true"
    /\ Len(received) = 5 /\ Len(channels) = 3
    /\ received[1] = received[2] /\ received[1] = received[5]
    /\ channels[3].id = received[4]

(***************************************************************************)
(* The reply loop of main on its own, in a run with --skip-legacy and one  *)
(* channel: get_channel_messages has just received its only page, whose    *)
(* messages carry any reply_count.                                         *)
(***************************************************************************)
\* Messages the page holds at most.
MaxMessages == 2

\* The reply_count values of the provider: absent, numbers, strings.
ReplyCounts ==
    {IntVal(n) : n \in {-1, 0, 1, 3}}
    \cup {StrVal(c) : c \in SeqUpTo({"0", "3", "a", "-"}, 2) \cup {<<"a", "b", "c">>}}

\* No reply_count in the message.
Absent == [t |-> "absent"]

\* The i-th message of the page.
MessageAt(i, count) ==
    IF count = Absent THEN [id |-> "m" \o ToString(i)]
    ELSE [id |-> "m" \o ToString(i), reply_count |-> count]

MessagePages ==
    UNION {{[i \in 1..k |-> MessageAt(i, f[i])] : f \in [1..k -> ReplyCounts \cup {Absent}]} :
             k \in 0..MaxMessages}

\* A reply that reports replies of its own.
Reply(i) == [id |-> "r" \o ToString(i), reply_count |-> IntVal(3)]

ReplyBodies ==
    IF pc # "replies" THEN {}
    ELSE Paged(<<Reply(served + 1)>>, TRUE) \cup {[data |-> <<>>]}

InitReplies ==
    /\ pc = "messages" /\ status = "running"
    /\ \E n \in BOOLEAN : args = Args("token", None, TRUE, n)
    /\ api = [st |-> "returned", retries |-> 0]
    /\ \E page \in MessagePages : ret = [data |-> page]
    /\ saw401 = FALSE /\ hist = NoHist(FALSE)
    /\ workspace = Team(1)
    /\ members = MemberDirectory([team |-> [members |-> <<Member("u1", "Alice")>>]])
    /\ tree = NoTree /\ chat_views = <<>> /\ cv_i = 0
    /\ start = NoTs /\ start_id = None /\ all_comments = <<>> /\ all_view_data = <<>>
    /\ include_closed = "true" /\ cursor = None /\ served = 0
    /\ all_channels = <<General>> /\ seen_ids = {General.id} /\ received = <<>>
    /\ channels = <<General>>
    /\ idx = 1 /\ all_messages = <<>> /\ msg_i = 0 /\ all_replies = <<>>
    /\ all_channel_data = <<>> /\ files = <<>>
    /\ events = <<Request("get_teams", 0, 0), Request("get_members", 0, 0),
                  Request("channels", 0, 0), Request("messages", 1, 0)>>
    /\ fn_in = <<>> /\ fn_out = <<>>

NextReplies == Messages \/ Replies \/ Http200(ReplyBodies) \/ (pc = "replies" /\ HttpError)

SpecReplies == InitReplies /\ [][NextReplies]_vars

\* The characters of a reply_count string as one string.
Spelled(chars) == Join(chars, "")
RECURSIVE Zeros(_)
Zeros(n) == IF n = 0 THEN "" ELSE "0" \o Zeros(n - 1)

\* The count is a positive number, or a string spelling one in decimal digits.
IsPositiveCount(count) ==
    IF count.t = "int" THEN count.n > 0
    ELSE \E n \in 1..99, z \in 0..Len(count.s) : Spelled(count.s) = Zeros(z) \o ToString(n)

\* The messages of channel ch as far as main holds them.
MessagesOf(ch) ==
    IF ch \in DOMAIN all_channel_data THEN all_channel_data[ch].messages
    ELSE IF ch = idx THEN all_messages ELSE <<>>

\* C5: a replies request is issued for a message exactly when --no-replies is
\* absent and the message's reply_count is positive ("3" and 3, not "abc" and
\* 0): every replies request is for such a top-level message; once main is done
\* with a channel there is a request for each such message of it; and there is
\* none for a reply, whatever reply_count the reply carries.
C5_ReplyFetch ==
    /\ \A k \in DOMAIN events :
         events[k].what = "replies" =>
           LET msgs == MessagesOf(events[k].ch)
           IN  /\ ~args.no_replies
               /\ events[k].msg \in DOMAIN msgs
               /\ msgs[events[k].msg].id = events[k].id
               /\ "reply_count" \in DOMAIN msgs[events[k].msg]
               /\ IsPositiveCount(msgs[events[k].msg].reply_count)
               /\ \A i \in DOMAIN msgs :
                     \A j \in DOMAIN Get(msgs[i], "replies", <<>>) :
                       msgs[i].replies[j].id # events[k].id
    /\ \A ch \in DOMAIN all_channel_data :
         \A i \in DOMAIN all_channel_data[ch].messages :
           LET msg == all_channel_data[ch].messages[i]
           IN  ~args.no_replies /\ "reply_count" \in DOMAIN msg /\ IsPositiveCount(msg.reply_count)
                 => RequestFor("replies", ch, i, msg.id) \in Range(events)

\* main is done with a channel whose first message, with reply_count "3", got
\* a reply that reports replies of its own and whose second, with "abc", got none.
C5_Witness ==
    /\ pc = "save_all" /\ Len(all_channel_data) = 1
    /\ LET msgs == all_channel_data[1].messages
       IN  /\ Len(msgs) = 2
           /\ \A i \in 1..2 : "reply_count" \in DOMAIN msgs[i] /\ msgs[i].reply_count.t = "str"
           /\ msgs[1].reply_count.s = <<"3">>
           /\ msgs[2].reply_count.s = <<"a", "b", "c">>
           /\ "replies" \in DOMAIN msgs[1] /\ Len(msgs[1].replies) = 2
           /\ "replies" \notin DOMAIN msgs[2]
    /\ RequestFor("replies", 1, 1, "m1") \in Range(events)

(***************************************************************************)
(* resolve_channel_name on its own: one call on any channel and member     *)
(* directory of the sets below.                                            *)
(***************************************************************************)
\* Member links a channel holds at most.
MaxLinks == 3

\* A member link by "user_id" and one by "id"; u9 is in no directory.
Link(u) == [user_id |-> u]
IdLink(u) == [id |-> u]
Links == {Link("u1"), Link("u2"), Link("u9"), IdLink("u2")}

Directories ==
    {MemberDirectory([team |-> [members |-> ms]]) :
       ms \in {<<>>, <<Member("u1", "Alice")>>, <<Member("u1", "Alice"), Member("u2", "Bob")>>}}

\* The channel object with the key set unless the value is None.
With(d, key, val) == IF val = None THEN d ELSE SetKey(d, key, val)

ChannelObjects ==
    {LET named == With(With(With([archived |-> FALSE], "id", id), "name", name), "type", type)
     IN  IF key = None THEN named ELSE SetKey(named, key, links) :
       id \in {None, "c7"}, name \in {None, "", "general"},
       type \in {None, "CHANNEL", "DM", "GROUP_DM", "HUDDLE"},
       key \in {None, "member_links", "members"}, links \in SeqUpTo(Links, MaxLinks)}

\* The state of a pure function's call on the input `in`.
Calling(fn, in) ==
    /\ pc = fn /\ status = "running" /\ args = Args("token", None, FALSE, FALSE)
    /\ api = ApiIdle /\ ret = ApiNone /\ saw401 = FALSE /\ hist = NoHist(FALSE)
    /\ workspace = [id |-> None, name |-> None] /\ members = <<>>
    /\ tree = NoTree /\ chat_views = <<>> /\ cv_i = 0
    /\ start = NoTs /\ start_id = None /\ all_comments = <<>> /\ all_view_data = <<>>
    /\ include_closed = "false" /\ cursor = None /\ served = 0
    /\ all_channels = <<>> /\ seen_ids = {} /\ received = <<>> /\ channels = <<>>
    /\ idx = 0 /\ all_messages = <<>> /\ msg_i = 0 /\ all_replies = <<>>
    /\ all_channel_data = <<>> /\ files = <<>> /\ events = <<>>
    /\ fn_in = in /\ fn_out = None

\* The function returns `out`.
Result(fn, out) ==
    /\ pc = fn
    /\ pc' = "returned"
    /\ fn_out' = out
    /\ UNCHANGED <<status, apiVars, args, workspace, members, legacyVars, walkVars, chanVars,
                   msgVars, files, events, fn_in>>

InitName ==
    \E channel \in ChannelObjects, dir \in Directories :
        Calling("resolve_channel_name", [channel |-> channel, members |-> dir])

ResolveName == Result("resolve_channel_name", ResolveChannelName(fn_in.channel, fn_in.members))

SpecName == InitName /\ [][ResolveName]_vars

\* The participants of the channel: its member links, by user identifier.
Participants(channel) ==
    LET links == IF "member_links" \in DOMAIN channel THEN channel.member_links
                 ELSE IF "members" \in DOMAIN channel THEN channel.members ELSE <<>>
    IN  [i \in DOMAIN links |->
           IF "user_id" \in DOMAIN links[i] THEN links[i].user_id ELSE links[i].id]

RECURSIVE DisplayNames(_, _)
\* The display names of the participants `uids` the directory resolves, in order.
DisplayNames(uids, dir) ==
    IF uids = <<>> THEN <<>>
    ELSE LET front == DisplayNames(SubSeq(uids, 1, Len(uids) - 1), dir)
             last  == uids[Len(uids)]
         IN  IF last \in DOMAIN dir THEN Append(front, dir[last].name) ELSE front

RECURSIVE Ampersands(_)
\* The names with " & " between them.
Ampersands(names) ==
    IF Len(names) = 1 THEN names[1]
    ELSE Ampersands(SubSeq(names, 1, Len(names) - 1)) \o " & " \o names[Len(names)]

ProviderName(channel) == IF "name" \in DOMAIN channel THEN channel.name ELSE ""
FallbackName(channel) ==
    "channel-" \o (IF "id" \in DOMAIN channel THEN channel.id ELSE "unknown")

\* C6 as stated: a non-empty provider name is the result whatever the type;
\* without one the result is "DM: " and the resolvable participants' names
\* joined by " & "; with neither it is "channel-{id}".
C6_NameFirst ==
    pc = "returned" =>
      LET names == DisplayNames(Participants(fn_in.channel), fn_in.members)
      IN  fn_out = IF ProviderName(fn_in.channel) # "" THEN ProviderName(fn_in.channel)
                   ELSE IF names # <<>> THEN "DM: " \o Ampersands(names)
                   ELSE FallbackName(fn_in.channel)

\* C6 amended: a channel of type CHANNEL with a non-empty provider name gets
\* that name; otherwise a channel of type DM or GROUP_DM with a resolvable
\* participant gets "DM: " and the resolvable participants' names joined by
\* " & " in participant order, whether it has a provider name or not; every
\* other channel gets its provider name if not empty, else "channel-{id}".
C6_NameByType ==
    pc = "returned" =>
      LET channel == fn_in.channel
          type    == IF "type" \in DOMAIN channel THEN channel.type ELSE ""
          names   == DisplayNames(Participants(channel), fn_in.members)
      IN  fn_out = IF type = "CHANNEL" /\ ProviderName(channel) # "" THEN ProviderName(channel)
                   ELSE IF type \in {"DM", "GROUP_DM"} /\ names # <<>>
                     THEN "DM: " \o Ampersands(names)
                   ELSE IF ProviderName(channel) # "" THEN ProviderName(channel)
                   ELSE FallbackName(channel)

\* A DM that has a provider name, and a participant no directory resolves
\* between Alice and Bob, is named after the two.
C6_Witness ==
    /\ pc = "returned" /\ fn_out = "DM: Alice & Bob"
    /\ Get(fn_in.channel, "type", "") = "DM" /\ Get(fn_in.channel, "name", "") = "general"
    /\ Participants(fn_in.channel) = <<"u1", "u9", "u2">>

(***************************************************************************)
(* save_channels_csv on its own: one call on any list of channel records   *)
(* of the shapes below.                                                    *)
(***************************************************************************)
\* Channel records in the list, and messages and replies in all, at most.
MaxRecords == 2
MaxRows == 5

\* A message is given by the number of its replies, -1 for no "replies" key.
Cost(r) == IF r < 0 THEN 1 ELSE 1 + r

RECURSIVE MessageShapes(_)
\* The lists of messages of at most b rows.
MessageShapes(b) ==
    {<<>>} \cup UNION {{<<r>> \o rest : rest \in MessageShapes(b - Cost(r))} :
                        r \in {q \in -1..(b - 1) : Cost(q) <= b}}

RECURSIVE RecordShapes(_, _)
\* The lists of at most n channel records of at most b rows.
RecordShapes(n, b) ==
    IF n = 0 THEN {<<>>}
    ELSE {<<>>} \cup UNION {{<<ms>> \o rest :
                               rest \in RecordShapes(n - 1, b - SumSeq([i \in DOMAIN ms |-> Cost(ms[i])]))} :
                            ms \in MessageShapes(b)}

\* The message i of channel c with r replies; without an id if i = anon.
ShapedMessage(c, i, r, anon) ==
    LET at   == ToString(c) \o "." \o ToString(i)
        base == IF i = anon THEN [date |-> Ts(1700000000, 0)]
                ELSE [id |-> "m" \o at, date |-> Ts(1700000000, 0)]
    IN  IF r < 0 THEN base
        ELSE SetKey(base, "replies", [j \in 1..r |-> Plain("r" \o at \o "." \o ToString(j))])

\* The channel records of the shape, as main builds them.
ShapedRecords(shape, anon) ==
    [c \in DOMAIN shape |->
       LET messages == [i \in DOMAIN shape[c] |-> ShapedMessage(c, i, shape[c][i], anon)]
       IN  ChannelRecord(SetKey(General, "id", "c" \o ToString(c)), <<>>, messages)]

InitCsv ==
    \E shape \in RecordShapes(MaxRecords, MaxRows), anon \in 0..2 :
        Calling("save_channels_csv", ShapedRecords(shape, anon))

SaveChannelsCsv == Result("save_channels_csv", ChannelsCsv(fn_in))

SpecCsv == InitCsv /\ [][SaveChannelsCsv]_vars

\* The rows a message takes: its own and one for each attached reply.
RowsFor(msg) == 1 + (IF "replies" \in DOMAIN msg THEN Len(msg.replies) ELSE 0)
RowsIn(record) == SumSeq([i \in DOMAIN record.messages |-> RowsFor(record.messages[i])])
\* The rows written before the row of message m of record c.
RowsBefore(data, c, m) ==
    SumSeq([k \in 1..(c - 1) |-> RowsIn(data[k])])
    + SumSeq([i \in 1..(m - 1) |-> RowsFor(data[c].messages[i])])

\* C7: save_channels_csv writes as many rows as there are messages and
\* attached replies; the row of each message has the flag "No" and no parent
\* identifier and is followed at once by the rows of its replies in reply
\* order, each with the flag "Yes" and the message's identifier as parent.
C7_CsvRows ==
    pc = "returned" =>
      /\ Len(fn_out) = SumSeq([c \in DOMAIN fn_in |-> RowsIn(fn_in[c])])
      /\ \A c \in DOMAIN fn_in : \A m \in DOMAIN fn_in[c].messages :
           LET msg  == fn_in[c].messages[m]
               at   == RowsBefore(fn_in, c, m) + 1
               mid  == IF "id" \in DOMAIN msg THEN msg.id ELSE ""
           IN  /\ fn_out[at].is_reply = "No"
               /\ fn_out[at].parent_id = ""
               /\ fn_out[at].message_id = mid
               /\ \A j \in 1..(RowsFor(msg) - 1) :
                    /\ fn_out[at + j].is_reply = "Yes"
                    /\ fn_out[at + j].parent_id = mid
                    /\ fn_out[at + j].message_id = msg.replies[j].id

\* A channel of 2 messages of which the first has 3 replies gives 5 rows.
C7_Witness ==
    /\ pc = "returned" /\ Len(fn_in) = 1 /\ Len(fn_in[1].messages) = 2
    /\ RowsFor(fn_in[1].messages[1]) = 4 /\ RowsFor(fn_in[1].messages[2]) = 1
    /\ Len(fn_out) = 5
    /\ [i \in 1..5 |-> fn_out[i].parent_id] = <<"", "m1.1", "m1.1", "m1.1", "">>

(***************************************************************************)
(* format_timestamp on its own: called on a whole-second value s and on    *)
(* 1000 * s, for s around the values where its cases change.               *)
(***************************************************************************)
\* Values taken on each side of an anchor.
TsWindow == 12

\* 1970-01-01 00:00:00, the last second whose thousandfold is a date, the
\* second whose thousandfold is the threshold 1e12, 2023-11-14 22:13:20, and
\* 2038-01-19 00:00:00.
Anchors == {0, 253402300, 1000 * 1000 * 1000, 1700000000, 2147472000}

WholeSeconds == {a + d : a \in Anchors, d \in (0 - TsWindow)..TsWindow} \cap {s \in Int : s > 0}

InitStamp == \E s \in WholeSeconds : Calling("format_timestamp", s)

FormatBoth ==
    Result("format_timestamp", [seconds |-> FormatTimestamp(OfSeconds(fn_in)),
                                millis  |-> FormatTimestamp(OfMillis(fn_in))])

SpecStamp == InitStamp /\ [][FormatBoth]_vars

\* C8 as stated: for every positive whole-second value s, format_timestamp
\* gives the same string for 1000 * s as for s.
C8_SameString == pc = "returned" => fn_out.millis = fn_out.seconds

\* C8 amended: for every whole-second value s above 10^9 (within the dates
\* datetime represents), format_timestamp gives the same string for 1000 * s
\* as for s; 1700000000000 and 1700000000 both give 2023-11-14 22:13:20.
C8_SameStringAboveThreshold ==
    pc = "returned" =>
      /\ fn_in > 1000 * 1000 * 1000 => fn_out.millis = fn_out.seconds
      /\ fn_in = 1700000000 => fn_out.millis = "2023-11-14 22:13:20"

C8_Witness ==
    /\ pc = "returned" /\ fn_in = 1700000000
    /\ fn_out = [seconds |-> "2023-11-14 22:13:20", millis |-> "2023-11-14 22:13:20"]

(***************************************************************************)
(* The order of a run, read off its log of requests and file writes.       *)
(***************************************************************************)
ConversationFileNames ==
    <<"all_conversations.json", "all_conversations.csv", "channels.json", "channels.csv",
      "direct_messages.json", "direct_messages.csv", "group_dms.json", "group_dms.csv">>

\* Where the event stands in the order of phases: the phase, and within the
\* phase of messages and replies the channel, messages before replies, and
\* the message; within the files of a phase their order.
Place(e) ==
    IF e.kind = "request"
      THEN CASE e.what = "workspace" -> <<1, 0, 0, 0>>
             [] e.what = "members"   -> <<2, 0, 0, 0>>
             [] e.what = "legacy"    -> <<3, 0, 0, 0>>
             [] e.what = "channels"  -> <<5, 0, 0, 0>>
             [] e.what = "messages"  -> <<6, e.ch, 1, 0>>
             [] e.what = "replies"   -> <<6, e.ch, 2, e.msg>>
    ELSE IF e.what = "chat_views.json" THEN <<4, 0, 1, 0>>
    ELSE IF e.what = "chat_views.csv" THEN <<4, 0, 2, 0>>
    ELSE IF e.what = "backup_summary.json" THEN <<8, 0, 0, 0>>
    ELSE <<7, 0, CHOOSE k \in DOMAIN ConversationFileNames : ConversationFileNames[k] = e.what, 0>>

\* a comes before b.
Before(a, b) ==
    \E k \in 1..4 : a[k] < b[k] /\ \A i \in 1..(k - 1) : a[i] = b[i]

Written(name) == \E i \in DOMAIN files : files[i].name = name

\* C9: each request and file write of a run comes later in the order of the
\* phases than the one before it, so that all of them are in that order
\* (workspace, members, legacy views, chat_views files, channel enumeration,
\* per channel its messages then the replies of its messages in order,
\* conversation files, summary); a completed run has made the workspace,
\* members and channel requests, the legacy requests unless skipped, and the
\* message requests of every channel, and has written the summary once, as
\* its last action.
C9_PhaseOrder ==
    /\ \A i \in 1..(Len(events) - 1) : Before(Place(events[i]), Place(events[i + 1]))
    /\ \A i \in DOMAIN files : Write(files[i].name) \in Range(events)
    /\ Written("backup_summary.json") => status = "exit(0)"
    /\ status = "exit(0)" =>
         /\ Len(events) >= 4
         /\ events[1] = Request("get_teams", 0, 0)
         /\ events[2] = Request("get_members", 0, 0)
         /\ (Request("get_spaces", 0, 0) \in Range(events)) = ~args.skip_legacy
         /\ Request("channels", 0, 0) \in Range(events)
         /\ \A ch \in DOMAIN channels : Request("messages", ch, 0) \in Range(events)
         /\ events[Len(events)] = Write("backup_summary.json")
         /\ files[Len(files)].name = "backup_summary.json"

\* A completed run with legacy views, two channels, and replies fetched for
\* two messages of the first.
C9_Witness ==
    /\ status = "exit(0)" /\ ~args.skip_legacy /\ Len(channels) = 2
    /\ Written("chat_views.csv") /\ Written("direct_messages.csv")
    /\ RequestFor("replies", 1, 1, "m4") \in Range(events)
    /\ RequestFor("replies", 1, 2, "m1") \in Range(events)
    /\ Request("messages", 2, 0) \in Range(events)

\* C10: once the chat_views files are written the legacy view records do not
\* change, and once a conversation file is written neither the channel
\* records nor the messages and replies being attached to one change.
C10_WrittenIsFinal ==
    [][/\ Written("chat_views.json") \/ Written("chat_views.csv")
            => all_view_data' = all_view_data /\ all_comments' = all_comments
       /\ (\E k \in DOMAIN ConversationFileNames : Written(ConversationFileNames[k]))
            => /\ all_channel_data' = all_channel_data
               /\ all_messages' = all_messages
               /\ all_replies' = all_replies]_vars

\* A completed run that wrote a legacy view with its comments and, later,
\* two channels, the first with replies attached to a message.
C10_Witness ==
    /\ status = "exit(0)"
    /\ Written("chat_views.json") /\ Written("all_conversations.json")
    /\ Len(all_view_data) = 1 /\ all_view_data[1].comment_count > COMMENT_PAGE_SIZE
    /\ Len(all_channel_data) = 2
    /\ \E m \in DOMAIN all_channel_data[1].messages :
         "replies" \in DOMAIN all_channel_data[1].messages[m]

(***************************************************************************)
(* The cursor walks: what each request of a walk carries.                  *)
(***************************************************************************)
\* The call sites of the three cursor walks.
CursorSites == {"channels", "messages", "replies"}

\* The caller sends a request at a cursor walk's call site.
CursorRequest == api.st = "returned" /\ api'.st = "sending" /\ pc' \in CursorSites

\* The request sent belongs to the walk whose page was just received: the
\* same pass of get_all_channels, the same channel, the same message.
SameWalk ==
    /\ pc' = pc /\ include_closed' = include_closed
    /\ idx' = idx /\ msg_i' = msg_i

\* C11: in a cursor walk the first request carries no cursor, a later request
\* carries the next_cursor of the page received before it, and a request
\* follows a page only if that page has items and a next cursor.
C11_CursorChain ==
    [][CursorRequest =>
         IF SameWalk
           THEN /\ HasData(ret)
                /\ PageItems(ret, pc) # <<>>
                /\ Truthy(Get(ret, "next_cursor", None))
                /\ cursor' = ret.next_cursor
           ELSE cursor' = None]_vars

\* The same, but for the items the page of a channel walk must have.
CursorChainButEmptyChannelPage ==
    [][CursorRequest =>
         IF SameWalk
           THEN /\ HasData(ret)
                /\ pc # "channels" => PageItems(ret, pc) # <<>>
                /\ Truthy(Get(ret, "next_cursor", None))
                /\ cursor' = ret.next_cursor
           ELSE cursor' = None]_vars

(***************************************************************************)
(* get_chat_view_comments on its own: main's loop over two chat views      *)
(* against a provider whose pages are empty, short, full or longer, whose  *)
(* oldest comment may lack its date or its id, and which repeats pages at  *)
(* will.  The comments of the pages received are recorded in `received`.   *)
(***************************************************************************)
\* Pages after which the walk goes on the provider gives within one run.
MaxFollowUps == 2

\* The oldest comment of a page of n comments: complete, without date or id,
\* or with a null date or id.
Oldest(n) ==
    {Comment(n), [id |-> "cm" \o ToString(n)], [date |-> Ts(1700000000 - n, 0)],
     [id |-> "cm" \o ToString(n), date |-> NoTs],
     [id |-> None, date |-> Ts(1700000000 - n, 0)]}

\* The page of n comments ending with `oldest`.
CommentPage(n, oldest) == [i \in 1..n |-> IF i = n THEN oldest ELSE Comment(i)]

\* oldest.get("date") and oldest.get("id") are both not None.
Marked(c) == Get(c, "date", NoTs) # NoTs /\ Get(c, "id", None) # None

\* The page is full and its oldest comment has both markers.
MarkedFullPage(cs) == Len(cs) >= COMMENT_PAGE_SIZE /\ Marked(cs[Len(cs)])

CommentPages ==
    {<<>>}
    \cup UNION {{CommentPage(n, c) : c \in Oldest(n)} :
                  n \in {1, COMMENT_PAGE_SIZE - 1, COMMENT_PAGE_SIZE, COMMENT_PAGE_SIZE + 1}}

CommentBodies ==
    IF pc # "view_comments" THEN {}
    ELSE {EmptyObj, [err |-> "Unavailable"]}
         \cup {[comments |-> cs] :
                 cs \in {q \in CommentPages : MarkedFullPage(q) => served < MaxFollowUps}}

LegacyView(i) ==
    [view_id |-> ChatView(i).id, view_name |-> ChatView(i).name, location |-> "Space: space1"]

InitComments ==
    /\ pc = "view_comments" /\ status = "running" /\ args = Args("token", None, FALSE, FALSE)
    /\ api = ApiCall /\ ret = ApiNone /\ saw401 = FALSE /\ hist = NoHist(TRUE)
    /\ workspace = Team(1)
    /\ members = MemberDirectory([team |-> [members |-> <<Member("u1", "Alice")>>]])
    /\ tree = NoTree /\ chat_views = <<LegacyView(1), LegacyView(2)>> /\ cv_i = 1
    /\ start = NoTs /\ start_id = None /\ all_comments = <<>> /\ all_view_data = <<>>
    /\ include_closed = "false" /\ cursor = None /\ served = 0
    /\ all_channels = <<>> /\ seen_ids = {} /\ received = <<>> /\ channels = <<>>
    /\ idx = 0 /\ all_messages = <<>> /\ msg_i = 0 /\ all_replies = <<>>
    /\ all_channel_data = <<>> /\ files = <<>>
    /\ events = <<Request("get_teams", 0, 0), Request("get_members", 0, 0),
                  Request("get_spaces", 0, 0)>>
    /\ fn_in = <<>> /\ fn_out = <<>>

NextComments ==
    ViewComments \/ Http200(CommentBodies) \/ (pc = "view_comments" /\ HttpError)

SpecComments == InitComments /\ [][NextComments]_vars

\* The request sent is the follow-up request of the walk whose page was
\* just received.
FollowUp == pc' = "view_comments" /\ api'.st = "sending" /\ cv_i' = cv_i

\* C12: get_chat_view_comments sends a follow-up request exactly when the
\* page received holds at least 25 comments and its oldest comment has a
\* date and an id, the follow-up carries these two as start and start_id, the
\* first request of a walk carries neither, and the comments collected, and
\* returned when the walk stops, are those of all pages received, in order
\* and with repetitions kept.
C12_MarkerWalk ==
    /\ [](received = Cat([v \in DOMAIN all_view_data |-> all_view_data[v].comments])
                       \o all_comments)
    /\ [][Returned("view_comments") /\ api' # api =>
            LET cs == ListOf(ret, "comments")
            IN  IF cs # <<>> /\ MarkedFullPage(cs)
                  THEN /\ FollowUp
                       /\ start' = cs[Len(cs)].date /\ start_id' = cs[Len(cs)].id
                       /\ all_comments' = all_comments \o cs
                       /\ all_view_data' = all_view_data
                  ELSE /\ ~FollowUp
                       /\ start' = NoTs /\ start_id' = None /\ all_comments' = <<>>
                       /\ all_view_data' =
                            Append(all_view_data,
                                   ViewRecord(chat_views[cv_i], all_comments \o cs))]_vars

\* Both walks are over: the first got the same full page twice and then a
\* page of one comment, the second a full page whose oldest comment has no id.
C12_Witness ==
    /\ pc = "save_views" /\ Len(all_view_data) = 2
    /\ all_view_data[1].comment_count = 2 * COMMENT_PAGE_SIZE + 1
    /\ \A i \in 1..COMMENT_PAGE_SIZE :
         all_view_data[1].comments[i] = all_view_data[1].comments[COMMENT_PAGE_SIZE + i]
    /\ all_view_data[2].comment_count = COMMENT_PAGE_SIZE
    /\ "id" \notin DOMAIN all_view_data[2].comments[COMMENT_PAGE_SIZE]

(***************************************************************************)
(* Part 2 of main on its own, in a run with --skip-legacy: the enumeration *)
(* returns channels of every type tag, a channel has a message or none,    *)
(* and the conversation files are written.                                 *)
(***************************************************************************)
\* Channels the first page of the enumeration holds at most.
MaxListed == 3

\* The type tags of the provider: the three known ones, an unrecognized one,
\* and None for a channel without the tag.
TypeTags == {"CHANNEL", "DM", "GROUP_DM", "THREAD", None}

Typed(i, tag) == IF tag = None THEN [id |-> Chan(i).id, name |-> Chan(i).name] ELSE [Chan(i) EXCEPT !.type = tag]

\* The pages of up to n channels c1, c2, ... with any type tags.
RECURSIVE TypedPages(_)
TypedPages(n) ==
    IF n = 0 THEN {<<>>}
    ELSE TypedPages(n - 1)
         \cup {Append(q, Typed(n, tag)) : q \in {p \in TypedPages(n - 1) : Len(p) = n - 1},
                                          tag \in TypeTags}

\* The open channels, then (include_closed) nothing more or the first channel
\* again under another tag and a closed one; a message or none per channel.
PartBodies ==
    CASE pc = "channels" ->
           IF include_closed = "false" THEN {[data |-> q] : q \in TypedPages(MaxListed)}
           ELSE {[data |-> <<>>], [data |-> <<Typed(1, "DM"), Typed(9, "GROUP_DM")>>]}
      [] pc = "messages" -> {[data |-> <<>>], [data |-> <<Msg("m1", IntVal(0))>>]}
      [] OTHER -> {}

NextParts == Channels \/ Messages \/ SaveConversations \/ SaveSummary \/ Http200(PartBodies)

SpecParts == InitChannels /\ [][NextParts]_vars

\* The content of the file `name`, written once.
FileContent(name) == files[CHOOSE i \in DOMAIN files : files[i].name = name].content
WrittenOnce(name) == Cardinality({i \in DOMAIN files : files[i].name = name}) = 1

\* The records of the channels whose provider tag is `tag`, in order.
Tagged(data, tag) ==
    SelectSeq(data, LAMBDA c : "type" \in DOMAIN c.channel_info /\ c.channel_info.type = tag)

\* The files of the partition are there exactly when it has records, and
\* hold these records and their rows.
PartitionSaved(part, json_name, csv_name) ==
    IF part = <<>> THEN ~Written(json_name) /\ ~Written(csv_name)
    ELSE /\ WrittenOnce(json_name) /\ FileContent(json_name) = part
         /\ WrittenOnce(csv_name) /\ FileContent(csv_name) = ChannelsCsv(part)

\* C13: once the conversation files are written, the all-conversations
\* records are those of the enumerated channels, each once and in enumeration
\* order, whatever their type tag; the channels, direct_messages and group_dms
\* files hold the records tagged CHANNEL, DM and GROUP_DM; and the two files
\* of a partition exist exactly when the partition has a record.  No
\* conversation file is written earlier.
C13_Partitions ==
    IF pc \in {"save_summary", "done"}
      THEN /\ Len(all_channel_data) = Len(channels)
           /\ \A i \in DOMAIN channels :
                /\ all_channel_data[i].channel_info = channels[i]
                /\ \A j \in DOMAIN channels : channels[j].id = channels[i].id => j = i
           /\ {channels[i].id : i \in DOMAIN channels} = Range(received)
           /\ PartitionSaved(all_channel_data, "all_conversations.json", "all_conversations.csv")
           /\ PartitionSaved(Tagged(all_channel_data, "CHANNEL"), "channels.json", "channels.csv")
           /\ PartitionSaved(Tagged(all_channel_data, "DM"),
                             "direct_messages.json", "direct_messages.csv")
           /\ PartitionSaved(Tagged(all_channel_data, "GROUP_DM"), "group_dms.json", "group_dms.csv")
      ELSE files = <<>>

\* A finished run over a group DM, a channel of unrecognized type, a channel
\* without type and a closed group DM: no channels or direct_messages files.
C13_Witness ==
    /\ status = "exit(0)" /\ Len(channels) = 4
    /\ Get(channels[1], "type", None) = "GROUP_DM"
    /\ Get(channels[2], "type", None) = "THREAD"
    /\ "type" \notin DOMAIN channels[3] /\ channels[4].id = "c9"
    /\ all_channel_data[2].message_count = 1 /\ all_channel_data[3].message_count = 0
    /\ Written("all_conversations.csv") /\ Written("group_dms.json")
    /\ ~Written("channels.json") /\ ~Written("direct_messages.json")

(***************************************************************************)
(* The four walks under failing requests: a run from the first comment     *)
(* request of two chat views to the summary, against a provider whose      *)
(* answer to a request is the page asked for (the first page, or the page  *)
(* at the cursor or marker given), another HTTP status, or no answer.      *)
(***************************************************************************)
\* The first page of a cursor walk, and the page at the cursor it gives.
PageAt(first, later) == IF cursor = None THEN Paged(first, TRUE) ELSE Paged(later, FALSE)

FailBodies ==
    CASE pc = "view_comments" ->
           IF start_id = None
             THEN {[comments |-> ShortPage(0)]}
                  \cup (IF served < MaxPages THEN {[comments |-> FullPage(0)]} ELSE {})
             ELSE {[comments |-> ShortPage(1)]}
      [] pc = "channels" ->
           IF include_closed = "false" THEN PageAt(<<General>>, <<Direct>>)
           ELSE PageAt(<<General, Chan(3)>>, <<Chan(4)>>)
      [] pc = "messages" ->
           PageAt(<<Msg("m1", IntVal(1))>>, <<Msg("m2", IntVal(0)), Msg("m3", IntVal(1))>>)
      [] pc = "replies" -> PageAt(<<Plain("r1")>>, <<Plain("r2")>>)
      [] OTHER -> {}

NextFail ==
    \/ ViewComments \/ SaveChatViews \/ Channels \/ Messages \/ Replies
    \/ SaveConversations \/ SaveSummary
    \/ Http200(FailBodies) \/ HttpError \/ TransportError

SpecFail == InitComments /\ [][NextFail]_vars

\* api_get has returned the empty result to the walk at `site`.
Failed(site) == Returned(site) /\ ret = ApiNone

\* The request sent continues the fetch whose page was just received.
SameFetch == SameWalk /\ cv_i' = cv_i /\ api'.st = "sending"

\* The first message from `from` on for whose replies main asks, or 0.
NextAsked(msgs, from) ==
    LET asked == {i \in from..Len(msgs) : ~args.no_replies /\ WantsReplies(msgs[i])}
    IN  IF asked = {} THEN 0 ELSE CHOOSE i \in asked : \A j \in asked : i <= j

\* main goes on with the channel idx, which has the messages msgs and whose
\* reply loop is at message `from`: the replies of the next message asked
\* for, or the channel's record and the next channel, or the files.
GoesOnWith(msgs, from) ==
    LET n == NextAsked(msgs, from)
    IN  IF n > 0
          THEN /\ pc' = "replies" /\ api' = ApiCall /\ cursor' = None
               /\ idx' = idx /\ msg_i' = n
               /\ all_messages' = msgs /\ all_replies' = <<>>
               /\ all_channel_data' = all_channel_data
          ELSE /\ all_channel_data' =
                    Append(all_channel_data, ChannelRecord(channels[idx], members, msgs))
               /\ IF idx < Len(channels)
                    THEN /\ pc' = "messages" /\ api' = ApiCall /\ cursor' = None
                         /\ idx' = idx + 1 /\ all_messages' = <<>>
                    ELSE pc' = "save_all" /\ api'.st = "idle"

\* C14: a request of a walk that returns the empty result ends the walk
\* with the items collected from the pages before it, each page having added
\* its items at the end, and the run goes on: with the next view or the
\* chat_views files, with the reply loop over the messages fetched, with the
\* next message, the next channel or the conversation files; in
\* get_all_channels it ends the pass, and after the include_closed=false
\* pass the include_closed=true pass sends its first request, without cursor.
C14_FailedPageEndsWalk ==
    [][/\ (\E site \in WalkSites : Failed(site)) => status' = "running"
       /\ Failed("view_comments") =>
            /\ all_view_data' = Append(all_view_data,
                                       ViewRecord(chat_views[cv_i], all_comments))
            /\ all_comments' = <<>> /\ start' = NoTs /\ start_id' = None
            /\ IF cv_i < Len(chat_views)
                 THEN pc' = "view_comments" /\ api' = ApiCall /\ cv_i' = cv_i + 1
                 ELSE pc' = "save_views" /\ api'.st = "idle"
       /\ Failed("channels") =>
            /\ all_channels' = all_channels /\ cursor' = None
            /\ IF include_closed = "false"
                 THEN /\ include_closed' = "true" /\ pc' = "channels" /\ api' = ApiCall
                      /\ channels' = channels
                 ELSE /\ channels' = all_channels
                      /\ IF all_channels # <<>>
                           THEN pc' = "messages" /\ api' = ApiCall /\ idx' = 1
                           ELSE pc' = "save_all" /\ api'.st = "idle"
       /\ Failed("messages") => GoesOnWith(all_messages, 1)
       /\ Failed("replies") =>
            GoesOnWith([all_messages EXCEPT ![msg_i] = SetKey(@, "replies", all_replies)],
                       msg_i + 1)
       /\ (\E site \in WalkSites : Returned(site) /\ HasData(ret)) /\ SameFetch =>
            /\ pc = "view_comments" => all_comments' = all_comments \o PageItems(ret, pc)
            /\ pc = "channels" =>
                 /\ SubSeq(all_channels', 1, Len(all_channels)) = all_channels
                 /\ Range(all_channels') = Range(all_channels) \cup Range(PageItems(ret, pc))
            /\ pc = "messages" => all_messages' = all_messages \o PageItems(ret, pc)
            /\ pc = "replies" => all_replies' = all_replies \o PageItems(ret, pc)]_vars

\* The include_closed=true pass is sending its first request after the
\* include_closed=false pass got its first page and then no second one: both
\* views had a single short page, so the one page with a continuation of this
\* run was the first page of channels, and the page at its cursor would have
\* added a channel.
C14_Witness ==
    /\ pc = "channels" /\ include_closed = "true" /\ api = ApiCall /\ cursor = None
    /\ all_channels = <<General>> /\ served = 1
    /\ Len(all_view_data) = 2
    /\ \A v \in DOMAIN all_view_data : all_view_data[v].comment_count = 1
=============================================================================
